---- MODULE Spec2Model ----
(***************************************************************************)
(* A model of the two tabular transformers of tab_transformer_pytorch:     *)
(* FTTransformer (ft_transformer.py) and TabTransformer                    *)
(* (tab_transformer_pytorch.py).                                           *)
(*                                                                         *)
(* One model object is followed from before its construction: the          *)
(* constructor either raises (no model exists) or leaves a model, on       *)
(* which forward and get_embeddings are then called.  A call leaves its    *)
(* outcome in `last`; Return hands it to the caller.                       *)
(*                                                                         *)
(* A tensor of rank 2 is a sequence of rows, each a sequence of entries;   *)
(* a hidden state is a sequence of rows of tokens.  Learned parameters     *)
(* are not modelled by value: a token records which table entry or which   *)
(* per-field weight produced it and from which input value.                *)
(***************************************************************************)
EXTENDS Integers, Sequences, FiniteSets, TLC

\* ---- bounds of the model
MaxFields == 2      \* longest `categories` sequence
MaxCard == 2        \* largest category cardinality
MaxCont == 2        \* largest num_continuous
MaxSpecial == 2     \* largest num_special_tokens
MaxDepth == 2       \* largest depth
MaxBatch == 3       \* largest number of rows of an input batch
Dim == 8            \* `dim`, the embedding width
Heads == 2          \* `heads`

\* ---- program constants
DefaultSpecialTokens == 2   \* num_special_tokens = 2
DefaultDimOut == 1          \* dim_out = 1
SharedCategDimDivisor == 8  \* shared_categ_dim_divisor = 8

VARIABLES model, last, pc, loop

vars == <<model, last, pc, loop>>

\* ---- helpers on sequences and tensors

RECURSIVE SumSeq(_)
SumSeq(s) == IF s = <<>> THEN 0 ELSE s[1] + SumSeq(Tail(s))

Max(a, b) == IF a >= b THEN a ELSE b
Min(a, b) == IF a <= b THEN a ELSE b

\* all sequences over S of length 0..n
SeqsUpTo(S, n) == UNION {[1..k -> S] : k \in 0..n}

Rows(x) == Len(x)
Cols(x) == Len(x[1])
Shape(x) == <<Rows(x), Cols(x)>>

\* a slice that ignores its start: x[:end]
SliceFromStart(x, start, end) == SubSeq(x, 1, Min(end, Len(x)))

\* x[start:end] on the leading dimension (Python half-open, 0-based)
Slice(x, start, end) == SubSeq(x, start + 1, Min(end, Len(x)))

RECURSIVE Concat(_)
\* torch.cat(list, dim = 0)
Concat(list) == IF list = <<>> THEN <<>> ELSE list[1] \o Concat(Tail(list))

\* ---- the category offset table

\* a pad that ignores the fill value
PadZero(t, v) == <<0>> \o t

\* F.pad(t, (1, 0), value = v): one leading entry v
Pad(t, v) == <<v>> \o t

RECURSIVE cumsum(_)
\* Tensor.cumsum(dim = -1): inclusive running sums
cumsum(t) ==
    IF t = <<>> THEN <<>>
    ELSE LET head == cumsum(SubSeq(t, 1, Len(t) - 1))
         IN  Append(head, (IF head = <<>> THEN 0 ELSE head[Len(head)]) + t[Len(t)])

\* t[:-1]
DropLast(t) == SubSeq(t, 1, Len(t) - 1)

categories_offset(categories, num_special_tokens) ==
    DropLast(cumsum(Pad(categories, num_special_tokens)))

\* ---- construction

NoModel == [kind |-> "none"]

\* continuous_mean_std is given by its shape; NoStats is the default None
NoStats == [given |-> FALSE, shape |-> <<>>]
Stats(shape) == [given |-> TRUE, shape |-> shape]

exists(val) == val.given

\* assert all(map(lambda n: n > 0, categories))
AllPositive(categories) == \A i \in DOMAIN categories : categories[i] > 0

\* assert len(categories) + num_continuous > 0
NotNull(categories, num_continuous) == Len(categories) + num_continuous > 0

\* the attributes both constructors set once the two assertions passed
CommonFields(kind, categories, num_continuous, num_special_tokens, depth, use_flash_attn, checkpoint_grads) ==
    [ kind |-> kind,
      categories |-> categories,
      num_categories |-> Len(categories),
      num_unique_categories |-> SumSeq(categories),
      num_special_tokens |-> num_special_tokens,
      total_tokens |-> SumSeq(categories) + num_special_tokens,
      categories_offset |->
          IF SumSeq(categories) > 0
          THEN categories_offset(categories, num_special_tokens)
          ELSE <<>>,
      num_continuous |-> num_continuous,
      depth |-> depth,
      heads |-> Heads,
      dim |-> Dim,
      dim_out |-> DefaultDimOut,
      use_flash_attn |-> use_flash_attn,
      checkpoint_grads |-> checkpoint_grads ]

InitFailed(error, expected) == [ok |-> FALSE, error |-> error, expected |-> expected]
InitDone(m) == [ok |-> TRUE, model |-> m]

\* FTTransformer.__init__
FTInit(categories, num_continuous, num_special_tokens, depth, use_flash_attn, checkpoint_grads) ==
    IF ~AllPositive(categories)
    THEN InitFailed("AssertionError: number of each category must be positive", <<>>)
    ELSE IF ~NotNull(categories, num_continuous)
    THEN InitFailed("AssertionError: input shape must not be null", <<>>)
    ELSE LET f == CommonFields("FT", categories, num_continuous, num_special_tokens,
                               depth, use_flash_attn, checkpoint_grads)
         IN  InitDone(f @@
             [ continuous_mean_std |-> NoStats,
               attrs |-> {"cls_token", "transformer", "to_logits"}
                         \cup (IF f.num_unique_categories > 0
                               THEN {"categories_offset", "categorical_embeds"} ELSE {})
                         \cup (IF num_continuous > 0 THEN {"numerical_embedder"} ELSE {}) ])

\* the assertion on the shape of continuous_mean_std, reached only when
\* num_continuous > 0
MeanStdOk(num_continuous, continuous_mean_std) ==
    (num_continuous > 0 /\ exists(continuous_mean_std))
        => continuous_mean_std.shape = <<num_continuous, 2>>

\* TabTransformer.__init__
TabInit(categories, num_continuous, num_special_tokens, depth, use_flash_attn, checkpoint_grads, stats) ==
    IF ~AllPositive(categories)
    THEN InitFailed("AssertionError: number of each category must be positive", <<>>)
    ELSE IF ~NotNull(categories, num_continuous)
    THEN InitFailed("AssertionError: input shape must not be null", <<>>)
    ELSE IF ~MeanStdOk(num_continuous, stats)
    THEN InitFailed("AssertionError: continuous_mean_std must have a shape of",
                    <<num_continuous, 2>>)
    ELSE LET f == CommonFields("Tab", categories, num_continuous, num_special_tokens,
                               depth, use_flash_attn, checkpoint_grads)
         IN  InitDone(f @@
             [ shared_embed_dim |-> Dim \div SharedCategDimDivisor,
               continuous_mean_std |->
                   IF num_continuous > 0 THEN stats ELSE NoStats,
               attrs |-> {"category_embed", "shared_category_embed", "transformer", "mlp"}
                         \cup (IF f.num_unique_categories > 0
                               THEN {"categories_offset"} ELSE {})
                         \cup (IF num_continuous > 0
                               THEN {"continuous_mean_std", "norm"} ELSE {}) ])

\* ---- embedders

\* broadcasting of two sizes along one dimension: equal, or one of them 1
Broadcastable(a, b) == a = b \/ a = 1 \/ b = 1
BroadcastLen(a, b) == IF a = 1 THEN b ELSE a
Pick(i, n) == IF n = 1 THEN 1 ELSE i

\* an addition that gives every field the offset of the first one
AddOffsetFirst(x_categ, offset) ==
    [ r \in 1..Rows(x_categ) |->
        [ j \in 1..Cols(x_categ) |-> x_categ[r][j] + offset[1] ] ]

\* x_categ + self.categories_offset: the offsets broadcast over the rows
AddOffset(x_categ, offset) ==
    [ r \in 1..Rows(x_categ) |->
        [ j \in 1..BroadcastLen(Cols(x_categ), Len(offset)) |->
            x_categ[r][Pick(j, Cols(x_categ))] + offset[Pick(j, Len(offset))] ] ]

\* nn.Embedding raises on an index outside [0, num_embeddings)
LookupOk(ids, total_tokens) ==
    \A r \in DOMAIN ids : \A j \in DOMAIN ids[r] : ids[r][j] >= 0 /\ ids[r][j] < total_tokens

\* nn.Embedding(total_tokens, width)(ids): the table row `param` for every id
Embedding(ids, width) ==
    [ r \in DOMAIN ids |->
        [ j \in DOMAIN ids[r] |->
            [kind |-> "categ", param |-> ids[r][j], value |-> 0, width |-> width] ] ]

\* NumericalEmbedder.forward: x[b, n, 1] * weights[n', dim] + biases[n', dim],
\* the field axis broadcast between n and n'; a token is weights[param] times
\* the input value plus biases[param]
NumericalEmbedder(x, num_numerical_types, dim) ==
    [ r \in 1..Rows(x) |->
        [ j \in 1..BroadcastLen(Cols(x), num_numerical_types) |->
            [ kind |-> "numer", param |-> Pick(j, num_numerical_types),
              value |-> x[r][Pick(j, Cols(x))], width |-> dim ] ] ]

\* torch.cat(xs, dim = 1) of tensors with the same number of rows
CatFields(xs, b) ==
    [ r \in 1..b |-> Concat([ i \in DOMAIN xs |-> xs[i][r] ]) ]

\* the CLS token put after the field tokens
AppendCls(x, dim) ==
    [ r \in DOMAIN x |->
        x[r] \o <<[kind |-> "cls", param |-> 0, value |-> 0, width |-> dim]>> ]

\* repeat(self.cls_token, '1 1 d -> b 1 d'); torch.cat((cls_tokens, x), dim = 1)
PrependCls(x, dim) ==
    [ r \in DOMAIN x |->
        <<[kind |-> "cls", param |-> 0, value |-> 0, width |-> dim]>> \o x[r] ]

\* ---- transformer stack

\* one layer on hidden rows x: every token is rewritten from its own value
\* (the residual) and the row `attended[r]` whose attention output is added
LayerOut(x, attended) ==
    [ r \in DOMAIN x |->
        [ p \in DOMAIN x[r] |-> [src |-> x[r][p], ctx |-> attended[r]] ] ]

\* torch.utils.checkpoint.checkpoint(function, *args), given out, the value of
\* function(*args): the forward pass returns that value and keeps no
\* activations, which the backward pass recomputes
checkpoint(out) == out

\* the two residual updates of a layer, under either setting of checkpoint_grads
Residuals(m, x, attended) ==
    IF m.checkpoint_grads THEN checkpoint(LayerOut(x, attended))
    ELSE LayerOut(x, attended)

\* the state threaded through the layers
Stack(x) == [x |-> x, post_softmax_attns |-> <<>>, trace |-> <<>>, error |-> ""]

\* Attention.forward of either file: the branch on use_flash_attn; the
\* return_attn argument is not read, one tensor of shape (b, n, dim) comes back.
\* kernel_ok: whether the external fused kernel accepts the tensors.
AttentionPath(m, kernel_ok) ==
    IF m.use_flash_attn
    THEN [step |-> "flash_attn",
          error |-> IF kernel_ok THEN "" ELSE "RuntimeError: flash_attn_qkvpacked_func"]
    ELSE [step |-> "softmax_attn", error |-> ""]

\* unpacking a tensor into two names iterates its leading dimension
UnpackError(b) ==
    IF b = 2 THEN ""
    ELSE IF b < 2 THEN "ValueError: not enough values to unpack"
    ELSE "ValueError: too many values to unpack"

\* one iteration of the loop of Transformer.forward of ft_transformer.py
FTLayer(m, st, return_attn, kernel_ok) ==
    LET a == AttentionPath(m, kernel_ok)
        b == Rows(st.x)
        n == Cols(st.x)
        trace == Append(st.trace, a.step)
    IN  IF a.error # "" THEN [st EXCEPT !.trace = trace, !.error = a.error]
        ELSE IF return_attn /\ UnpackError(b) # ""
        THEN [st EXCEPT !.trace = trace, !.error = UnpackError(b)]
        ELSE [ x |-> Residuals(m, st.x, IF return_attn
                                        THEN [r \in 1..b |-> st.x[1]]
                                        ELSE st.x),
               post_softmax_attns |->
                   IF return_attn THEN Append(st.post_softmax_attns, <<n, m.dim>>)
                   ELSE st.post_softmax_attns,
               trace |-> Append(trace, "ff"),
               error |-> "" ]

\* one iteration of the loop of Transformer.forward of tab_transformer_pytorch.py:
\* attn is a PreNorm, whose forward(self, x) takes no keyword argument
TabLayer(m, st, return_attn, kernel_ok) ==
    LET a == AttentionPath(m, kernel_ok)
        trace == Append(st.trace, a.step)
    IN  IF return_attn
        THEN [st EXCEPT !.error =
                 "TypeError: forward() got an unexpected keyword argument 'return_attn'"]
        ELSE IF a.error # "" THEN [st EXCEPT !.trace = trace, !.error = a.error]
        ELSE [ x |-> Residuals(m, st.x, st.x),
               post_softmax_attns |-> st.post_softmax_attns,
               trace |-> Append(trace, "ff"),
               error |-> "" ]

\* one iteration of the loop, skipped once an exception has ended it
Layer(m, st, return_attn, kernel_ok) ==
    IF st.error # "" THEN st
    ELSE IF m.kind = "FT" THEN FTLayer(m, st, return_attn, kernel_ok)
    ELSE TabLayer(m, st, return_attn, kernel_ok)

RECURSIVE Layers(_, _, _, _, _)
\* for attn, ff in self.layers: the first `depth` layers in order
Layers(m, st, depth, return_attn, kernel_ok) ==
    IF depth = 0 THEN st
    ELSE Layer(m, Layers(m, st, depth - 1, return_attn, kernel_ok), return_attn, kernel_ok)

\* torch.stack(post_softmax_attns): shape, or <<>> with an error on an empty list
StackShape(list) == IF list = <<>> THEN <<>> ELSE <<Len(list)>> \o list[1]

\* Transformer.forward of either file
Transformer(m, x, return_attn, kernel_ok) ==
    LET st == Layers(m, Stack(x), m.depth, return_attn, kernel_ok)
    IN  IF st.error # "" THEN st @@ [attns |-> <<>>]
        ELSE IF return_attn /\ st.post_softmax_attns = <<>>
        THEN [st EXCEPT !.error = "RuntimeError: stack expects a non-empty TensorList"]
             @@ [attns |-> <<>>]
        ELSE st @@ [attns |-> IF return_attn THEN StackShape(st.post_softmax_attns)
                              ELSE <<>>]

\* ---- forward

\* x[:, 0]
FirstToken(x) == [ r \in DOMAIN x |-> x[r][1] ]

\* the result of a forward call that raised
ForwardRaised(m, x_categ, x_cont, return_attn, error, expected, trace, ids) ==
    [ op |-> "forward", x_categ |-> x_categ, x_cont |-> x_cont,
      return_attn |-> return_attn, outcome |-> "error", error |-> error,
      expected |-> expected, trace |-> trace, ids |-> ids,
      logits |-> <<>>, hidden |-> <<>>, pooled |-> <<>>, attns |-> <<>>,
      returns_attns |-> FALSE ]

\* an assertion that only rejects too many columns
CategShapeAtMost(m, x_categ) == Cols(x_categ) <= m.num_categories

\* assert x_categ.shape[-1] == self.num_categories
CategShapeOk(m, x_categ) == Cols(x_categ) = m.num_categories

\* assert x_cont.shape[1] == self.num_continuous (TabTransformer only)
ContShapeOk(m, x_cont) == Cols(x_cont) = m.num_continuous

\* the global ids looked up by forward: <<>> when there is no categorical field
GlobalIds(m, x_categ) ==
    IF m.num_unique_categories > 0 THEN AddOffset(x_categ, m.categories_offset) ELSE <<>>

\* FTTransformer.forward
FTForward(m, x_categ, x_numer, return_attn, kernel_ok) ==
    LET b == Rows(x_categ)
        ids == GlobalIds(m, x_categ)
        hasCateg == m.num_unique_categories > 0
        hasNumer == m.num_continuous > 0
        Raise(error, expected, trace) ==
            ForwardRaised(m, x_categ, x_numer, return_attn, error, expected, trace,
                          IF trace = <<>> THEN <<>> ELSE ids)
    IN  IF ~CategShapeOk(m, x_categ)
        THEN Raise("AssertionError: you must pass in values for your categories input",
                   <<m.num_categories>>, <<>>)
        ELSE IF hasCateg /\ ~LookupOk(ids, m.total_tokens)
        THEN Raise("IndexError: index out of range in self", <<>>, <<"categorical_embeds">>)
        ELSE IF hasNumer /\ ~Broadcastable(Cols(x_numer), m.num_continuous)
        THEN Raise("RuntimeError: the size of tensor a must match the size of tensor b",
                   <<>>,
                   (IF hasCateg THEN <<"categorical_embeds">> ELSE <<>>)
                       \o <<"numerical_embedder">>)
        ELSE
        LET xs == (IF hasCateg THEN <<Embedding(ids, m.dim)>> ELSE <<>>)
                  \o (IF hasNumer THEN <<NumericalEmbedder(x_numer, m.num_continuous, m.dim)>>
                      ELSE <<>>)
            pre == (IF hasCateg THEN <<"categorical_embeds">> ELSE <<>>)
                   \o (IF hasNumer THEN <<"numerical_embedder">> ELSE <<>>)
        IN  IF xs = <<>>
            THEN Raise("RuntimeError: torch.cat(): expected a non-empty list of Tensors",
                       <<>>, pre)
            ELSE
            LET x == PrependCls(CatFields(xs, b), m.dim)
                t == Transformer(m, x, return_attn, kernel_ok)
            IN  IF t.error # "" THEN Raise(t.error, <<>>, pre \o t.trace)
                ELSE [ op |-> "forward", x_categ |-> x_categ, x_cont |-> x_numer,
                       return_attn |-> return_attn, outcome |-> "ok", error |-> "",
                       expected |-> <<>>,
                       trace |-> pre \o t.trace \o <<"to_logits">>,
                       ids |-> ids,
                       logits |-> <<b, m.dim_out>>,
                       hidden |-> t.x,
                       pooled |-> FirstToken(t.x),
                       attns |-> t.attns,
                       returns_attns |-> return_attn ]

\* repeat(self.shared_category_embed, 'n d -> b n d') concatenated on the last
\* axis: token j also carries the learned vector of field slot j
WithShared(categ_embed, shared_embed_dim) ==
    [ r \in DOMAIN categ_embed |->
        [ j \in DOMAIN categ_embed[r] |->
            [ categ_embed[r][j] EXCEPT !.value = j,
                                       !.width = @ + shared_embed_dim ] ] ]

\* TabTransformer.forward
TabForward(m, x_categ, x_cont, return_attn, kernel_ok) ==
    LET b == Rows(x_categ)
        ids == GlobalIds(m, x_categ)
        hasCateg == m.num_unique_categories > 0
        hasCont == m.num_continuous > 0
        Raise(error, expected, trace) ==
            ForwardRaised(m, x_categ, x_cont, return_attn, error, expected, trace,
                          IF trace = <<>> THEN <<>> ELSE ids)
    IN  IF ~CategShapeOk(m, x_categ)
        THEN Raise("AssertionError: you must pass in values for your categories input",
                   <<m.num_categories>>, <<>>)
        ELSE IF hasCateg /\ ~LookupOk(ids, m.total_tokens)
        THEN Raise("IndexError: index out of range in self", <<>>, <<"category_embed">>)
        ELSE
        LET t == IF hasCateg
                 THEN Transformer(m, WithShared(Embedding(ids, m.dim - m.shared_embed_dim),
                                               m.shared_embed_dim),
                                  return_attn, kernel_ok)
                 ELSE Stack(<<>>) @@ [attns |-> <<>>]
            pre == IF hasCateg THEN <<"category_embed">> \o t.trace ELSE <<>>
            post == (IF hasCont THEN <<"norm">> ELSE <<>>) \o <<"mlp">>
        IN  IF t.error # "" THEN Raise(t.error, <<>>, pre)
            ELSE IF ~ContShapeOk(m, x_cont)
            THEN Raise("AssertionError: you must pass in values for your continuous input",
                       <<m.num_continuous>>, pre)
            ELSE IF return_attn /\ ~hasCateg
            THEN Raise("UnboundLocalError: local variable 'attns' referenced before assignment",
                       <<>>, pre \o post)
            ELSE [ op |-> "forward", x_categ |-> x_categ, x_cont |-> x_cont,
                   return_attn |-> return_attn, outcome |-> "ok", error |-> "",
                   expected |-> <<>>,
                   trace |-> pre \o post,
                   ids |-> ids,
                   logits |-> <<b, m.dim_out>>,
                   hidden |-> t.x,
                   pooled |-> <<>>,
                   attns |-> t.attns,
                   returns_attns |-> return_attn ]

\* a forward call: the whole call is one step
Forward(x_categ, x_cont, return_attn, kernel_ok) ==
    /\ pc = "idle"
    /\ last' = IF model.kind = "FT"
               THEN FTForward(model, x_categ, x_cont, return_attn, kernel_ok)
               ELSE TabForward(model, x_categ, x_cont, return_attn, kernel_ok)
    /\ pc' = "returned"
    /\ UNCHANGED <<model, loop>>

\* ---- FTTransformer.get_embeddings

\* x[:, 1:]
DropCls(x) == [ r \in DOMAIN x |-> Tail(x[r]) ]

\* the body shared by the unchunked branch and by every chunk: offsets, lookup,
\* numerical embedder, concatenation, CLS token, transformer, x[:, 1:]
EmbedBatch(m, x_categ, x_cont, kernel_ok) ==
    LET hasCateg == m.num_unique_categories > 0
        hasNumer == m.num_continuous > 0
        ids == GlobalIds(m, x_categ)
        Raise(error) == [error |-> error, embeddings |-> <<>>]
    IN  IF hasCateg /\ ~Broadcastable(Cols(x_categ), Len(m.categories_offset))
        THEN Raise("RuntimeError: the size of tensor a must match the size of tensor b")
        ELSE IF hasCateg /\ ~LookupOk(ids, m.total_tokens)
        THEN Raise("IndexError: index out of range in self")
        ELSE IF hasNumer /\ ~Broadcastable(Cols(x_cont), m.num_continuous)
        THEN Raise("RuntimeError: the size of tensor a must match the size of tensor b")
        ELSE
        LET xs == (IF hasCateg THEN <<Embedding(ids, m.dim)>> ELSE <<>>)
                  \o (IF hasNumer THEN <<NumericalEmbedder(x_cont, m.num_continuous, m.dim)>>
                      ELSE <<>>)
        IN  IF xs = <<>>
            THEN Raise("RuntimeError: torch.cat(): expected a non-empty list of Tensors")
            ELSE LET t == Transformer(m, PrependCls(CatFields(xs, Rows(xs[1])), m.dim),
                                      FALSE, kernel_ok)
                 IN  IF t.error # "" THEN Raise(t.error)
                     ELSE [error |-> "", embeddings |-> DropCls(t.x)]

\* batch_size is <<>> for None, <<k>> for the integer k
EmbeddingsResult(x_categ, x_cont, batch_size, error, embeddings, ranges) ==
    [ op |-> "get_embeddings", x_categ |-> x_categ, x_cont |-> x_cont,
      batch_size |-> batch_size,
      outcome |-> IF error = "" THEN "ok" ELSE "error", error |-> error,
      embeddings |-> embeddings, ranges |-> ranges ]

\* the call of get_embeddings: the unchunked branch is one step, the chunked
\* branch enters the loop over range(0, x_categ.size(0), batch_size)
GetEmbeddings(x_categ, x_cont, batch_size, kernel_ok) ==
    /\ pc = "idle"
    /\ model.kind = "FT"
    /\ IF batch_size = <<>>
       THEN LET e == EmbedBatch(model, x_categ, x_cont, kernel_ok)
            IN  /\ last' = EmbeddingsResult(x_categ, x_cont, batch_size,
                                            e.error, e.embeddings, <<>>)
                /\ pc' = "returned"
                /\ loop' = <<>>
       ELSE /\ loop' = [ x_categ |-> x_categ, x_cont |-> x_cont,
                         batch_size |-> batch_size[1], kernel_ok |-> kernel_ok,
                         i |-> 0, embeddings |-> <<>>, ranges |-> <<>> ]
            /\ pc' = "chunk"
            /\ last' = [op |-> "none"]
    /\ UNCHANGED model

\* end = min(start + batch_size, x_categ.size(0))
ChunkEnd(start, batch_size, size) == Min(start + batch_size, size)

\* the chunk [start, end) of one iteration, embedded as in the unchunked branch
Chunk(lp, m) ==
    LET start == lp.i
        end == ChunkEnd(start, lp.batch_size, Rows(lp.x_categ))
    IN  [ range |-> <<start, end>>,
          e |-> EmbedBatch(m, Slice(lp.x_categ, start, end),
                           Slice(lp.x_cont, start, end), lp.kernel_ok) ]

\* one iteration of the chunk loop; an exception ends the call
ChunkStep ==
    /\ pc = "chunk"
    /\ loop.i < Rows(loop.x_categ)
    /\ \E c \in {Chunk(loop, model)} :
          IF c.e.error # ""
          THEN /\ last' = EmbeddingsResult(loop.x_categ, loop.x_cont, <<loop.batch_size>>,
                                           c.e.error, <<>>, Append(loop.ranges, c.range))
               /\ pc' = "returned"
               /\ loop' = <<>>
          ELSE /\ loop' = [loop EXCEPT !.i = loop.i + loop.batch_size,
                                       !.embeddings = Append(loop.embeddings, c.e.embeddings),
                                       !.ranges = Append(loop.ranges, c.range)]
               /\ UNCHANGED <<last, pc>>
    /\ UNCHANGED model

\* the loop is exhausted: torch.cat(embeddings, dim = 0) is returned
ChunkDone ==
    /\ pc = "chunk"
    /\ loop.i >= Rows(loop.x_categ)
    /\ last' = EmbeddingsResult(loop.x_categ, loop.x_cont, <<loop.batch_size>>,
                                "", Concat(loop.embeddings), loop.ranges)
    /\ pc' = "returned"
    /\ loop' = <<>>
    /\ UNCHANGED model

\* ---- TabTransformer.get_embeddings

\* an attribute lookup that finds every name
HasAttrAlways(m, name) == TRUE

\* self.<name> resolves: the constructor has set the attribute
HasAttr(m, name) == name \in m.attrs

NoAttribute(name) == "AttributeError: 'TabTransformer' object has no attribute " \o name

\* the body of the unchunked branch and of every chunk: the same statements as
\* in FTTransformer.get_embeddings, run on a TabTransformer, whose attributes
\* are looked up as they are read. An empty batch has no row to compare with
\* the offsets and yields an empty result.
TabEmbedBatch(m, x_categ, x_cont, kernel_ok) ==
    LET hasCateg == m.num_unique_categories > 0
        hasNumer == m.num_continuous > 0
        Raise(error) == [error |-> error, embeddings |-> <<>>]
    IN  IF hasCateg /\ x_categ # <<>>
           /\ ~Broadcastable(Cols(x_categ), Len(m.categories_offset))
        THEN Raise("RuntimeError: the size of tensor a must match the size of tensor b")
        ELSE IF hasCateg /\ ~HasAttr(m, "categorical_embeds")
        THEN Raise(NoAttribute("categorical_embeds"))
        ELSE IF hasNumer /\ ~HasAttr(m, "numerical_embedder")
        THEN Raise(NoAttribute("numerical_embedder"))
        ELSE IF ~hasCateg /\ ~hasNumer
        THEN Raise("RuntimeError: torch.cat(): expected a non-empty list of Tensors")
        ELSE IF ~HasAttr(m, "cls_token")
        THEN Raise(NoAttribute("cls_token"))
        ELSE IF x_categ = <<>> THEN [error |-> "", embeddings |-> <<>>]
        ELSE EmbedBatch(m, x_categ, x_cont, kernel_ok)

\* the call of TabTransformer.get_embeddings; range(0, size, 0) raises
TabGetEmbeddings(x_categ, x_cont, batch_size, kernel_ok) ==
    /\ pc = "idle"
    /\ model.kind = "Tab"
    /\ IF batch_size = <<>>
       THEN LET e == TabEmbedBatch(model, x_categ, x_cont, kernel_ok)
            IN  /\ last' = EmbeddingsResult(x_categ, x_cont, batch_size,
                                            e.error, e.embeddings, <<>>)
                /\ pc' = "returned"
                /\ loop' = <<>>
       ELSE IF batch_size[1] = 0
       THEN /\ last' = EmbeddingsResult(x_categ, x_cont, batch_size,
                                        "ValueError: range() arg 3 must not be zero",
                                        <<>>, <<>>)
            /\ pc' = "returned"
            /\ loop' = <<>>
       ELSE /\ loop' = [ x_categ |-> x_categ, x_cont |-> x_cont,
                         batch_size |-> batch_size[1], kernel_ok |-> kernel_ok,
                         i |-> 0, embeddings |-> <<>>, ranges |-> <<>> ]
            /\ pc' = "tab_chunk"
            /\ last' = [op |-> "none"]
    /\ UNCHANGED model

\* the chunk [start, end) of one iteration of the TabTransformer loop
TabChunk(lp, m) ==
    LET start == lp.i
        end == ChunkEnd(start, lp.batch_size, Rows(lp.x_categ))
    IN  [ range |-> <<start, end>>,
          e |-> TabEmbedBatch(m, Slice(lp.x_categ, start, end),
                              Slice(lp.x_cont, start, end), lp.kernel_ok) ]

\* range(0, size, batch_size) has a next element
TabRangeHasNext(lp) == lp.batch_size > 0 /\ lp.i < Rows(lp.x_categ)

\* one iteration of the chunk loop; an exception ends the call
TabChunkStep ==
    /\ pc = "tab_chunk"
    /\ TabRangeHasNext(loop)
    /\ \E c \in {TabChunk(loop, model)} :
          IF c.e.error # ""
          THEN /\ last' = EmbeddingsResult(loop.x_categ, loop.x_cont, <<loop.batch_size>>,
                                           c.e.error, <<>>, Append(loop.ranges, c.range))
               /\ pc' = "returned"
               /\ loop' = <<>>
          ELSE /\ loop' = [loop EXCEPT !.i = loop.i + loop.batch_size,
                                       !.embeddings = Append(loop.embeddings, c.e.embeddings),
                                       !.ranges = Append(loop.ranges, c.range)]
               /\ UNCHANGED <<last, pc>>
    /\ UNCHANGED model

\* the loop is exhausted: torch.cat(embeddings, dim = 0), which raises on an
\* empty list
TabChunkDone ==
    /\ pc = "tab_chunk"
    /\ ~TabRangeHasNext(loop)
    /\ last' = IF loop.embeddings = <<>>
               THEN EmbeddingsResult(loop.x_categ, loop.x_cont, <<loop.batch_size>>,
                        "RuntimeError: torch.cat(): expected a non-empty list of Tensors",
                        <<>>, loop.ranges)
               ELSE EmbeddingsResult(loop.x_categ, loop.x_cont, <<loop.batch_size>>,
                                     "", Concat(loop.embeddings), loop.ranges)
    /\ pc' = "returned"
    /\ loop' = <<>>
    /\ UNCHANGED model

Init ==
    /\ model = NoModel
    /\ last = [op |-> "none"]
    /\ pc = "new"
    /\ loop = <<>>

\* a constructor call with keyword arguments args
Construct(args) ==
    /\ pc = "new"
    /\ LET r == IF args.kind = "FT"
                THEN FTInit(args.categories, args.num_continuous, args.num_special_tokens,
                            args.depth, args.use_flash_attn, args.checkpoint_grads)
                ELSE TabInit(args.categories, args.num_continuous, args.num_special_tokens,
                             args.depth, args.use_flash_attn, args.checkpoint_grads,
                             args.continuous_mean_std)
       IN  IF r.ok
           THEN /\ model' = r.model
                /\ pc' = "returned"
                /\ last' = [ op |-> "construct", args |-> args, outcome |-> "ok",
                             error |-> "", expected |-> <<>> ]
           ELSE /\ model' = NoModel
                /\ pc' = "failed"
                /\ last' = [ op |-> "construct", args |-> args, outcome |-> "error",
                             error |-> r.error, expected |-> r.expected ]
    /\ UNCHANGED loop

\* the caller takes the result of a call
Return ==
    /\ pc = "returned"
    /\ pc' = "idle"
    /\ last' = [op |-> "none"]
    /\ UNCHANGED <<model, loop>>


\* ---- the inputs drawn by the specifications

Cardinalities == SeqsUpTo(0..MaxCard, MaxFields)
ContCounts == (0 - 1)..MaxCont

StatsShapes ==
    {NoStats} \cup {Stats(<<a>>) : a \in 0..MaxCont}
              \cup {Stats(<<a, c>>) : a \in 0..(MaxCont + 1), c \in 1..2}

Args(kind, categories, num_continuous, num_special_tokens, depth, use_flash_attn, checkpoint_grads, stats) ==
    [ kind |-> kind, categories |-> categories, num_continuous |-> num_continuous,
      num_special_tokens |-> num_special_tokens, depth |-> depth,
      use_flash_attn |-> use_flash_attn, checkpoint_grads |-> checkpoint_grads,
      continuous_mean_std |-> stats ]

\* a batch of b rows and n categorical columns with a valid code in every field
\* of the model's schema, consecutive rows differing wherever a field allows
CategBatch(m, b, n) ==
    [ r \in 1..b |->
        [ j \in 1..n |-> IF j <= Len(m.categories) THEN (r - 1) % m.categories[j] ELSE 0 ] ]

\* a batch of b rows and n continuous columns, row r holding the value r
ContBatch(b, n) == [ r \in 1..b |-> [ j \in 1..n |-> r ] ]

\* the well-formed number of continuous columns for model m
ContCols(m) == Max(m.num_continuous, 0)

NewFT ==
    /\ pc = "new"
    /\ \E categories \in Cardinalities, num_continuous \in ContCounts,
       depth \in 0..MaxDepth, use_flash_attn \in BOOLEAN :
        Construct(Args("FT", categories, num_continuous, DefaultSpecialTokens, depth,
                       use_flash_attn, FALSE, NoStats))

NewTab ==
    /\ pc = "new"
    /\ \E categories \in Cardinalities, num_continuous \in ContCounts,
       depth \in 0..MaxDepth, use_flash_attn \in BOOLEAN, stats \in StatsShapes :
        Construct(Args("Tab", categories, num_continuous, DefaultSpecialTokens, depth,
                       use_flash_attn, FALSE, stats))

CallForward ==
    /\ pc = "idle"
    /\ \E b \in 1..MaxBatch, n \in 0..(MaxFields + 1), c \in 0..(MaxCont + 1),
          return_attn \in BOOLEAN, kernel_ok \in BOOLEAN :
           Forward(CategBatch(model, b, n), ContBatch(b, c), return_attn, kernel_ok)

CallGetEmbeddings ==
    /\ pc = "idle"
    /\ model.kind = "FT"
    /\ \E b \in 1..MaxBatch, kernel_ok \in BOOLEAN,
          batch_size \in {<<>>} \cup {<<k>> : k \in 1..(MaxBatch + 1)} :
           GetEmbeddings(CategBatch(model, b, model.num_categories),
                         ContBatch(b, ContCols(model)), batch_size, kernel_ok)

Next ==
    \/ NewFT
    \/ NewTab
    \/ CallForward
    \/ CallGetEmbeddings
    \/ ChunkStep
    \/ ChunkDone
    \/ Return

Spec == Init /\ [][Next]_vars

\* ---- a second specification: every special-token count and every code of a
\* single input row, on models with one layer and the explicit attention path

CodeRows(m) == [1..m.num_categories -> 0..MaxCard]

ValNewFT ==
    /\ pc = "new"
    /\ \E categories \in Cardinalities, num_continuous \in 0..1,
       num_special_tokens \in 0..MaxSpecial :
        Construct(Args("FT", categories, num_continuous, num_special_tokens, 1,
                       FALSE, FALSE, NoStats))

ValNewTab ==
    /\ pc = "new"
    /\ \E categories \in Cardinalities, num_continuous \in 0..1,
       num_special_tokens \in 0..MaxSpecial :
        Construct(Args("Tab", categories, num_continuous, num_special_tokens, 1,
                       FALSE, FALSE, NoStats))

ValForward ==
    /\ pc = "idle"
    /\ \E return_attn \in BOOLEAN, row \in CodeRows(model) :
           Forward(<<row>>, ContBatch(1, ContCols(model)), return_attn, TRUE)

NextValues ==
    \/ ValNewFT
    \/ ValNewTab
    \/ ValForward
    \/ Return

SpecValues == Init /\ [][NextValues]_vars

\* ---- a third specification: get_embeddings alone, on FTTransformers of
\* depth 1. The chunk loop is ordinary sequential code: a started call runs on.

ChunkNewFT ==
    /\ pc = "new"
    /\ \E categories \in Cardinalities, num_continuous \in ContCounts,
          use_flash_attn \in BOOLEAN :
           Construct(Args("FT", categories, num_continuous, DefaultSpecialTokens, 1,
                          use_flash_attn, FALSE, NoStats))

NextChunk ==
    \/ ChunkNewFT
    \/ CallGetEmbeddings
    \/ ChunkStep
    \/ ChunkDone
    \/ Return

\* the loop body can run: the enabling condition of ChunkStep
ChunkStepEnabled == pc = "chunk" /\ loop.i < Rows(loop.x_categ)

\* weak fairness of ChunkStep, with its enabling condition written out
FairChunkStep == []<>(~ChunkStepEnabled) \/ []<><<ChunkStep>>_vars

FairSpecChunk ==
    Init /\ [][NextChunk]_vars /\ FairChunkStep /\ WF_vars(ChunkDone)

\* ---- a fourth specification: forward on well-formed inputs of models with
\* the explicit attention path, with gradient checkpointing on or off

StackNewFT ==
    /\ pc = "new"
    /\ \E categories \in Cardinalities, num_continuous \in 0..MaxCont,
          depth \in 0..MaxDepth, checkpoint_grads \in BOOLEAN :
           Construct(Args("FT", categories, num_continuous, DefaultSpecialTokens, depth,
                          FALSE, checkpoint_grads, NoStats))

StackNewTab ==
    /\ pc = "new"
    /\ \E categories \in Cardinalities, num_continuous \in 0..MaxCont,
          depth \in 0..MaxDepth, checkpoint_grads \in BOOLEAN :
           Construct(Args("Tab", categories, num_continuous, DefaultSpecialTokens, depth,
                          FALSE, checkpoint_grads, NoStats))

StackForward ==
    /\ pc = "idle"
    /\ \E b \in 1..MaxBatch, return_attn \in BOOLEAN :
           Forward(CategBatch(model, b, model.num_categories),
                   ContBatch(b, model.num_continuous), return_attn, TRUE)

NextStack ==
    \/ StackNewFT
    \/ StackNewTab
    \/ StackForward
    \/ Return

SpecStack == Init /\ [][NextStack]_vars

\* ---- a fifth specification: get_embeddings of TabTransformers, with
\* well-formed and malformed inputs, empty batches, and every chunk size

TabEmbedNew ==
    /\ pc = "new"
    /\ \E categories \in Cardinalities, num_continuous \in ContCounts,
          depth \in 0..1, use_flash_attn \in BOOLEAN :
           Construct(Args("Tab", categories, num_continuous, DefaultSpecialTokens, depth,
                          use_flash_attn, FALSE, NoStats))

\* the chunk sizes passed: None and the integers from -1 on
ChunkSizes == {<<>>} \cup {<<k>> : k \in (0 - 1)..(MaxBatch + 1)}

CallTabGetEmbeddings ==
    /\ pc = "idle"
    /\ model.kind = "Tab"
    /\ \E b \in 0..MaxBatch, n \in 0..(MaxFields + 1), kernel_ok \in BOOLEAN,
          batch_size \in ChunkSizes :
           TabGetEmbeddings(CategBatch(model, b, n), ContBatch(b, ContCols(model)),
                            batch_size, kernel_ok)

NextTabEmbed ==
    \/ TabEmbedNew
    \/ CallTabGetEmbeddings
    \/ TabChunkStep
    \/ TabChunkDone
    \/ Return

SpecTabEmbed == Init /\ [][NextTabEmbed]_vars

\* ---- properties

\* C1: a constructed model of either class with n >= 1 categorical fields holds
\* an offset table of length n whose first entry is num_special_tokens and whose
\* entry i is entry i-1 plus the cardinality of field i-1.
C1_OffsetTable ==
    (model.kind # "none" /\ model.num_categories >= 1) =>
        LET c == model.categories
            off == model.categories_offset
        IN  /\ Len(off) = Len(c)
            /\ off[1] = model.num_special_tokens
            /\ \A i \in 2..Len(c) : off[i] = off[i - 1] + c[i - 1]

C1_Witness ==
    /\ model.kind = "Tab"
    /\ model.categories = <<1, 2>>
    /\ model.num_special_tokens = 2
    /\ model.categories_offset = <<2, 3>>

\* every code of the categorical input of the last call is valid for its field
ValidCodes ==
    \A r \in DOMAIN last.x_categ : \A j \in DOMAIN last.x_categ[r] :
        last.x_categ[r][j] >= 0 /\ last.x_categ[r][j] < model.categories[j]

\* C2: when forward of either model is given valid codes, every looked-up id is
\* code + offset of its field, lies in [num_special_tokens, total_tokens), the
\* size of the embedding table, and ids of different fields never coincide.
C2_GlobalIds ==
    (/\ last.op = "forward"
     /\ model.num_categories >= 1
     /\ Cols(last.x_categ) = model.num_categories
     /\ ValidCodes) =>
        LET c == model.categories
            off == model.categories_offset
            s == model.num_special_tokens
            total == SumSeq(c) + s
        IN  /\ model.total_tokens = total
            /\ last.error # "IndexError: index out of range in self"
            /\ DOMAIN last.ids = DOMAIN last.x_categ
            /\ \A r \in DOMAIN last.ids :
                  /\ DOMAIN last.ids[r] = DOMAIN last.x_categ[r]
                  /\ \A j \in DOMAIN last.ids[r] :
                        /\ last.ids[r][j] = last.x_categ[r][j] + off[j]
                        /\ last.ids[r][j] >= s
                        /\ last.ids[r][j] < total
            /\ \A j \in DOMAIN c : \A k \in DOMAIN c :
                  j # k => \A a \in 0..(c[j] - 1) : \A b \in 0..(c[k] - 1) :
                             a + off[j] # b + off[k]

C2_Witness ==
    /\ last.op = "forward"
    /\ model.categories = <<2, 2>>
    /\ model.num_special_tokens = 2
    /\ last.x_categ = << <<1, 1>> >>
    /\ last.ids = << <<3, 5>> >>

\* the error of the assertion on the categorical and on the continuous input
CategAssertion == "AssertionError: you must pass in values for your categories input"
ContAssertion == "AssertionError: you must pass in values for your continuous input"

InTrace(step) == \E i \in DOMAIN last.trace : last.trace[i] = step

\* the input of the last forward call has the configured numbers of columns
WellFormed ==
    /\ Cols(last.x_categ) = model.num_categories
    /\ Cols(last.x_cont) = model.num_continuous

\* the length of the token sequence the transformer stack sees
SeqLen ==
    IF model.kind = "FT" THEN 1 + model.num_categories + model.num_continuous
    ELSE model.num_categories

\* C3: a forward call of either model whose categorical input has another
\* number of columns than the model has categorical fields raises the
\* assertion naming the expected count, whatever the continuous input is,
\* before any lookup, embedder or layer has run.
C3_CategMismatchRejected ==
    (last.op = "forward" /\ Cols(last.x_categ) # model.num_categories) =>
        /\ last.outcome = "error"
        /\ last.error = CategAssertion
        /\ last.expected = <<model.num_categories>>
        /\ last.trace = <<>>
        /\ last.ids = <<>>

C3_Witness ==
    /\ last.op = "forward"
    /\ model.kind = "FT"
    /\ model.num_categories = 2
    /\ Cols(last.x_categ) = 1
    /\ Cols(last.x_cont) # model.num_continuous
    /\ last.error = CategAssertion

\* C4 (as claimed): a forward call of either model whose continuous input has
\* another number of columns than num_continuous raises the assertion naming
\* the expected count, also when the categorical input is well-formed.
C4_ContMismatchRejected ==
    (/\ last.op = "forward"
     /\ model.num_continuous >= 0
     /\ ~last.return_attn
     /\ ~model.use_flash_attn
     /\ Cols(last.x_categ) = model.num_categories
     /\ Cols(last.x_cont) # model.num_continuous) =>
        /\ last.outcome = "error"
        /\ last.error = ContAssertion
        /\ last.expected = <<model.num_continuous>>

\* C5 (as claimed): on a model with the explicit attention path and a
\* well-formed input, forward with return_attn returns logits and a trace of
\* depth entries of shape (batch, heads, seq_len, seq_len), and without
\* return_attn returns the logits alone.
C5_AttentionTrace ==
    (/\ last.op = "forward"
     /\ model.num_continuous >= 0
     /\ model.depth >= 1
     /\ ~model.use_flash_attn
     /\ WellFormed) =>
        /\ last.outcome = "ok"
        /\ last.logits = <<Rows(last.x_categ), model.dim_out>>
        /\ last.returns_attns = last.return_attn
        /\ last.return_attn =>
              last.attns = <<model.depth, Rows(last.x_categ), model.heads, SeqLen, SeqLen>>

\* C6 (as claimed): forward with return_attn on a model built with
\* use_flash_attn never runs the fused kernel: the call is rejected, or it
\* runs the explicit path and returns the full trace.
C6_FlashConflict ==
    (/\ last.op = "forward"
     /\ model.num_continuous >= 0
     /\ model.depth >= 1
     /\ model.use_flash_attn
     /\ last.return_attn
     /\ WellFormed) =>
        /\ ~InTrace("flash_attn")
        /\ last.outcome = "ok" =>
              last.attns = <<model.depth, Rows(last.x_categ), model.heads, SeqLen, SeqLen>>

\* C8 (as claimed): a TabTransformer constructor given continuous_mean_std of
\* another shape than (num_continuous, 2) raises, for every num_continuous
\* including 0.
C8_MeanStdShape ==
    (/\ last.op = "construct"
     /\ last.args.kind = "Tab"
     /\ last.args.num_continuous >= 0
     /\ last.args.continuous_mean_std.given
     /\ last.args.continuous_mean_std.shape # <<last.args.num_continuous, 2>>) =>
        /\ last.outcome = "error"
        /\ model.kind = "none"

\* C9 (as claimed): construction fails, leaving no model, on a cardinality
\* <= 0 or an empty schema; so every constructed model has all cardinalities
\* > 0, num_continuous >= 0 and at least one field.
C9_SchemaInvariant ==
    /\ (/\ last.op = "construct"
        /\ \/ \E i \in DOMAIN last.args.categories : last.args.categories[i] <= 0
           \/ (last.args.categories = <<>> /\ last.args.num_continuous = 0)) =>
           (last.outcome = "error" /\ model.kind = "none")
    /\ model.kind # "none" =>
           /\ \A i \in DOMAIN model.categories : model.categories[i] > 0
           /\ model.num_continuous >= 0
           /\ model.num_categories + model.num_continuous > 0

RECURSIVE RawToken(_)
\* the input token a hidden token stems from
RawToken(tok) == IF "src" \in DOMAIN tok THEN RawToken(tok.src) ELSE tok

\* row e of an embedding result holds the tokens of input row (xc, xn) of the
\* model: one per categorical field, then one per continuous field, no CLS
FieldTokens(e, xc, xn) ==
    /\ Len(e) = model.num_categories + model.num_continuous
    /\ \A p \in DOMAIN e :
          LET t == RawToken(e[p])
          IN  /\ t.width = model.dim
              /\ IF p <= model.num_categories
                 THEN /\ t.kind = "categ"
                      /\ t.param = xc[p] + model.categories_offset[p]
                 ELSE /\ t.kind = "numer"
                      /\ t.param = p - model.num_categories
                      /\ t.value = xn[p - model.num_categories]

\* C10: on an FTTransformer with num_continuous >= 0 and a well-formed batch
\* of B rows, forward returns logits of shape (B, dim_out) computed from the
\* CLS token at position 0, and get_embeddings returns B rows of
\* num_categories + num_continuous tokens of width dim, categorical fields
\* first, continuous fields next, the CLS token left out. The calls complete
\* unless the external fused kernel is in use.
C10_Shapes ==
    (model.kind = "FT" /\ model.num_continuous >= 0) =>
        /\ (last.op = "forward" /\ WellFormed) =>
              /\ (~last.return_attn /\ ~model.use_flash_attn) => last.outcome = "ok"
              /\ last.outcome = "ok" =>
                    /\ last.logits = <<Rows(last.x_categ), model.dim_out>>
                    /\ Len(last.pooled) = Rows(last.x_categ)
                    /\ \A r \in DOMAIN last.pooled :
                          /\ RawToken(last.pooled[r]).kind = "cls"
                          /\ RawToken(last.pooled[r]).width = model.dim
        /\ (last.op = "get_embeddings" /\ WellFormed) =>
              /\ ~model.use_flash_attn => last.outcome = "ok"
              /\ last.outcome = "ok" =>
                    /\ Len(last.embeddings) = Rows(last.x_categ)
                    /\ \A r \in DOMAIN last.embeddings :
                          FieldTokens(last.embeddings[r], last.x_categ[r], last.x_cont[r])

C10_Witness ==
    /\ last.op = "get_embeddings"
    /\ last.outcome = "ok"
    /\ model.num_categories = 0
    /\ model.num_continuous = 2
    /\ Rows(last.x_categ) = 3
    /\ Len(last.embeddings) = 3
    /\ Len(last.embeddings[1]) = 2

\* the i-th range of range(0, size, k) is [(i-1)k, min(ik, size))
ChunkRangesOk(ranges, k, size) ==
    \A i \in DOMAIN ranges :
        ranges[i] = <<(i - 1) * k, IF i * k < size THEN i * k ELSE size>>

\* a returned chunked call has gone through the ranges in order up to the last
\* row and its result is, row by row, that of the unchunked branch
C7_Returned ==
    (last.op = "get_embeddings" /\ last.batch_size # <<>>) =>
        LET size == Rows(last.x_categ)
            k == last.batch_size[1]
            whole == EmbedBatch(model, last.x_categ, last.x_cont, TRUE)
        IN  /\ ChunkRangesOk(last.ranges, k, size)
            /\ ~model.use_flash_attn => last.outcome = "ok"
            /\ last.outcome = "ok" =>
                  /\ Len(last.ranges) = (size + k - 1) \div k
                  /\ last.ranges[Len(last.ranges)][2] = size
                  /\ whole.error = ""
                  /\ Len(last.embeddings) = size
                  /\ \A r \in 1..size : last.embeddings[r] = whole.embeddings[r]

\* inside the loop the ranges done so far are the first ones of the sequence
\* and the next one starts where the last one ended
C7_Looping ==
    pc = "chunk" =>
        LET size == Rows(loop.x_categ)
        IN  /\ loop.batch_size >= 1
            /\ ChunkRangesOk(loop.ranges, loop.batch_size, size)
            /\ loop.i = Len(loop.ranges) * loop.batch_size
            /\ Len(loop.embeddings) = Len(loop.ranges)
            /\ Len(Concat(loop.embeddings)) = Min(loop.i, size)

\* C7: a chunked call of FTTransformer.get_embeddings on B >= 1 rows with chunk
\* size k >= 1 processes the ranges [0,k), [k,2k), ... up to B in order, every
\* row once, returns B rows equal row by row to the unchunked result, and its
\* loop terminates.
C7_Chunked ==
    /\ [](C7_Returned /\ C7_Looping)
    /\ (pc = "chunk") ~> (pc = "returned")

C7_Witness ==
    /\ last.op = "get_embeddings"
    /\ last.outcome = "ok"
    /\ Rows(last.x_categ) = 3
    /\ last.batch_size = <<2>>
    /\ last.ranges = << <<0, 2>>, <<2, 3>> >>
    /\ last.embeddings[1] # last.embeddings[2]
    /\ last.embeddings[2] # last.embeddings[3]

\* the attention and feed-forward steps of the last call, in the order run
LayerSteps ==
    LET IsLayerStep(step) == step \in {"softmax_attn", "flash_attn", "ff"}
    IN  SelectSeq(last.trace, IsLayerStep)

\* forward of the model on the input of the last call, on the plain path
\* without gradient checkpointing
PlainForward ==
    LET plain == [model EXCEPT !.checkpoint_grads = FALSE]
    IN  IF model.kind = "FT"
        THEN FTForward(plain, last.x_categ, last.x_cont, FALSE, TRUE)
        ELSE TabForward(plain, last.x_categ, last.x_cont, FALSE, TRUE)

\* the last call ran attention then feed-forward in each of the depth layers
\* and ended with the hidden state and the logits of the plain path
SameAsPlain ==
    /\ last.outcome = "ok"
    /\ LayerSteps = [ i \in 1..(2 * model.depth) |->
                        IF i % 2 = 1 THEN "softmax_attn" ELSE "ff" ]
    /\ last.hidden = PlainForward.hidden
    /\ last.logits = PlainForward.logits

\* forward of the model runs the transformer stack: TabTransformer runs it
\* on the categorical tokens only, and skips it when there are none
StackRuns == model.kind = "FT" \/ model.num_unique_categories > 0

\* on the plain path gradient checkpointing changes neither the layer steps
\* nor the hidden state nor the logits
CheckpointTransparent ==
    (last.op = "forward" /\ StackRuns /\ ~last.return_attn) => SameAsPlain

\* C11 (as claimed): on a model with at least one layer whose forward runs
\* the stack, forward runs attention then feed-forward in every layer in order
\* and ends with the same hidden state and logits whether or not attention
\* maps are requested and whether or not checkpoint_grads is set.
C11_StackEquivalence ==
    (last.op = "forward" /\ StackRuns /\ model.depth >= 1) => SameAsPlain

\* the attributes get_embeddings reads that only FTTransformer creates
EmbedderAttrs == {"categorical_embeds", "numerical_embedder", "cls_token"}

\* the errors get_embeddings can raise before it calls self.transformer
BeforeTransformer ==
    {NoAttribute(name) : name \in EmbedderAttrs}
    \cup {"RuntimeError: the size of tensor a must match the size of tensor b",
          "RuntimeError: torch.cat(): expected a non-empty list of Tensors",
          "ValueError: range() arg 3 must not be zero"}

\* C12: a constructed TabTransformer has none of categorical_embeds,
\* numerical_embedder, cls_token, and has a categorical or a continuous
\* field; every call of its get_embeddings, chunked or not, ends in an error
\* raised before the transformer stack and returns no embeddings, and no
\* chunk of a chunked call is ever embedded.
C12_TabGetEmbeddingsFails ==
    model.kind = "Tab" =>
        /\ model.attrs \cap EmbedderAttrs = {}
        /\ model.num_unique_categories > 0 \/ model.num_continuous > 0
        /\ last.op = "get_embeddings" =>
              /\ last.outcome = "error"
              /\ last.error \in BeforeTransformer
              /\ last.embeddings = <<>>
        /\ pc = "tab_chunk" => loop.embeddings = <<>>

C12_Witness ==
    /\ model.kind = "Tab"
    /\ last.op = "get_embeddings"
    /\ Rows(last.x_categ) = 3
    /\ last.batch_size = <<2>>
    /\ last.ranges = << <<0, 2>> >>
    /\ last.error = NoAttribute("categorical_embeds")

====
